---- MODULE Spec2Model ----
(***************************************************************************)
(* Model of pontoon_calc.py: the two calculation functions                 *)
(* calculate_design and optimize_design, and the PontoonCalculatorApp      *)
(* callbacks that drive them from the twelve input fields.                 *)
(*                                                                         *)
(* Numbers.  The program computes with Python floats.  The model computes  *)
(* with exact rationals <<n, d>> (d > 0, lowest terms) and with values of  *)
(* the form r + p * PI, where PI is the decimal literal 3.141592653589793  *)
(* that the source writes out.  Comparisons against PI are exact: they are *)
(* decided on arbitrary-precision naturals (sequences of base-10000        *)
(* limbs), because the literal does not fit a machine integer of the model *)
(* checker.  The irrational roots (x ** 0.5, x ** (1/3)) are handled where *)
(* they occur, see Sqrt and RoundRoot.  Inputs are finite numbers of       *)
(* moderate size: float overflow, NaN and infinities are outside the model.*)
(***************************************************************************)
EXTENDS Integers, Sequences, FiniteSets, TLC

\* ------------------------------------------------------------- integers

Abs(n) == IF n < 0 THEN -n ELSE n

Sgn(n) == IF n < 0 THEN -1 ELSE IF n = 0 THEN 0 ELSE 1

RECURSIVE GCD(_, _)
GCD(a, b) == IF b = 0 THEN a ELSE GCD(b, a % b)

\* floor of the square root of a natural number (Newton iteration from above)
RECURSIVE ISqrtFrom(_, _)
ISqrtFrom(n, x) ==
  LET y == (x + n \div x) \div 2
  IN  IF y >= x THEN x ELSE ISqrtFrom(n, y)

ISqrt(n) == IF n < 2 THEN n ELSE ISqrtFrom(n, n \div 2 + 1)

IsSquare(n) == ISqrt(n) * ISqrt(n) = n

\* ------------------------------------------- arbitrary-precision naturals
\* a natural number as its base-10000 limbs, least significant first

Base == 10000

RECURSIVE BFromInt(_)
BFromInt(n) == IF n = 0 THEN <<>> ELSE <<n % Base>> \o BFromInt(n \div Base)

RECURSIVE BAddC(_, _, _)
BAddC(a, b, c) ==
  IF a = <<>> /\ b = <<>>
  THEN IF c = 0 THEN <<>> ELSE <<c>>
  ELSE LET x == IF a = <<>> THEN 0 ELSE Head(a)
           y == IF b = <<>> THEN 0 ELSE Head(b)
           s == x + y + c
       IN  <<s % Base>> \o BAddC(IF a = <<>> THEN <<>> ELSE Tail(a),
                                 IF b = <<>> THEN <<>> ELSE Tail(b),
                                 s \div Base)

BAdd(a, b) == BAddC(a, b, 0)

RECURSIVE BMulLimb(_, _, _)
BMulLimb(a, k, c) ==
  IF a = <<>>
  THEN IF c = 0 THEN <<>> ELSE <<c>>
  ELSE LET s == Head(a) * k + c
       IN  <<s % Base>> \o BMulLimb(Tail(a), k, s \div Base)

RECURSIVE BMul(_, _)
BMul(a, b) ==
  IF b = <<>> \/ a = <<>>
  THEN <<>>
  ELSE BAdd(BMulLimb(a, Head(b), 0), <<0>> \o BMul(a, Tail(b)))

RECURSIVE BStrip(_)
BStrip(a) ==
  IF a = <<>> THEN a
  ELSE IF a[Len(a)] = 0 THEN BStrip(SubSeq(a, 1, Len(a) - 1)) ELSE a

RECURSIVE BCmpFrom(_, _, _)
BCmpFrom(a, b, i) ==
  IF i = 0 THEN 0
  ELSE IF a[i] < b[i] THEN -1
  ELSE IF a[i] > b[i] THEN 1
  ELSE BCmpFrom(a, b, i - 1)

\* -1, 0 or 1 as a < b, a = b, a > b
BCmp(a, b) ==
  LET x == BStrip(a)
      y == BStrip(b)
  IN  IF Len(x) < Len(y) THEN -1
      ELSE IF Len(x) > Len(y) THEN 1
      ELSE BCmpFrom(x, y, Len(x))

BProd3(a, b, c) == BMul(BMul(BFromInt(a), BFromInt(b)), c)

\* -------------------------------------------------------------- rationals

RNorm(n, d) ==
  LET g == GCD(Abs(n), Abs(d))
  IN  IF d < 0 THEN <<(-n) \div g, (-d) \div g>> ELSE <<n \div g, d \div g>>

R(n) == <<n, 1>>

RNeg(a) == <<-a[1], a[2]>>

RAdd(a, b) ==
  LET g == GCD(a[2], b[2])
  IN  RNorm(a[1] * (b[2] \div g) + b[1] * (a[2] \div g), (a[2] \div g) * b[2])

RSub(a, b) == RAdd(a, RNeg(b))

RMul(a, b) ==
  LET g1 == GCD(Abs(a[1]), b[2])
      g2 == GCD(Abs(b[1]), a[2])
  IN  IF a[1] = 0 \/ b[1] = 0 THEN <<0, 1>>
      ELSE <<(a[1] \div g1) * (b[1] \div g2), (a[2] \div g2) * (b[2] \div g1)>>

\* a / b for b # 0
RDiv(a, b) ==
  RMul(a, IF b[1] < 0 THEN <<-b[2], -b[1]>> ELSE <<b[2], b[1]>>)

RSign(a) == Sgn(a[1])

\* sign of a - b, exact
RCmp(a, b) ==
  IF RSign(a) # RSign(b)
  THEN Sgn(RSign(a) - RSign(b))
  ELSE RSign(a) * BCmp(BMul(BFromInt(Abs(a[1])), BFromInt(b[2])),
                       BMul(BFromInt(Abs(b[1])), BFromInt(a[2])))

RLess(a, b) == RCmp(a, b) < 0

RLeq(a, b) == RCmp(a, b) <= 0

\* ------------------------------------------------------ numbers r + p * PI

\* the literal 3.141592653589793 as PiNum / PiDen
PiNum == <<9793, 5358, 5926, 3141>>

PiDen == <<0, 0, 0, 1000>>

NRat(q) == [r |-> q, p |-> <<0, 1>>]

NPi(q) == [r |-> <<0, 1>>, p |-> q]

NAdd(x, y) == [r |-> RAdd(x.r, y.r), p |-> RAdd(x.p, y.p)]

NSub(x, y) == [r |-> RSub(x.r, y.r), p |-> RSub(x.p, y.p)]

\* the rational q times x
NScale(q, x) == [r |-> RMul(q, x.r), p |-> RMul(q, x.p)]

\* sign of r + p * PI, exact
NSign(x) ==
  IF x.p[1] = 0 THEN RSign(x.r)
  ELSE IF x.r[1] = 0 \/ RSign(x.r) = RSign(x.p) THEN RSign(x.p)
  ELSE RSign(x.r) * BCmp(BProd3(Abs(x.r[1]), x.p[2], PiDen),
                         BProd3(Abs(x.p[1]), x.r[2], PiNum))

NLess(x, y) == NSign(NSub(x, y)) < 0

NGeq(x, y) == NSign(NSub(y, x)) <= 0

\* the exact quotient n / d of two numbers, d # 0, kept unevaluated
NQuot(n, d) == [num |-> n, den |-> d]

\* q1 < q2 for quotients whose numerators are multiples of PI
\* (n.r = 0): n1/d1 < n2/d2 iff n1.p * d2 < n2.p * d1 when d1 * d2 > 0
QLess(q1, q2) ==
  LET a == NScale(q1.num.p, q2.den)
      b == NScale(q2.num.p, q1.den)
  IN  IF NSign(q1.den) * NSign(q2.den) > 0 THEN NLess(a, b) ELSE NLess(b, a)

\* ------------------------------------------------------------------ roots

\* c * c * x[2] <= x[1] * s * s, i.e. c / s <= the square root of x
SqrtLeq(c, s, x) ==
  BCmp(BProd3(c, c, BFromInt(x[2])), BProd3(s, s, BFromInt(x[1]))) <= 0

RECURSIVE SqrtDigits(_, _, _, _)
SqrtDigits(x, k, s, n) ==
  IF n = 0 THEN RNorm(k, s)
  ELSE LET d == CHOOSE e \in 0..9 :
                  /\ SqrtLeq(10 * k + e, 10 * s, x)
                  /\ (e = 9 \/ ~SqrtLeq(10 * k + e + 1, 10 * s, x))
       IN  SqrtDigits(x, 10 * k + d, 10 * s, n - 1)

\* x ** 0.5 for a rational x >= 0: the exact root when x is the square of a
\* rational, otherwise the root cut to three decimals (the float rounds an
\* irrational root as well, in its 53rd bit)
Sqrt(x) ==
  IF IsSquare(x[1]) /\ IsSquare(x[2])
  THEN <<ISqrt(x[1]), ISqrt(x[2])>>
  ELSE SqrtDigits(x, ISqrt(x[1] \div x[2]), 1, 3)

\* (2m+1)^3 * PI * v[2] > 8 * s^3 * v[1], i.e. s * cbrt(v / PI) < m + 1/2
BelowHalf(m, s, v) ==
  BCmp(BMul(BProd3(2 * m + 1, 2 * m + 1, BFromInt(2 * m + 1)),
            BMul(PiNum, BFromInt(v[2]))),
       BProd3(8 * s * s * s, v[1], PiDen)) > 0

RECURSIVE RoundSearch(_, _, _, _)
RoundSearch(lo, hi, s, v) ==
  IF lo = hi THEN lo
  ELSE LET mid == (lo + hi) \div 2
       IN  IF BelowHalf(mid, s, v)
           THEN RoundSearch(lo, mid, s, v)
           ELSE RoundSearch(mid + 1, hi, s, v)

\* round(s * (v / PI) ** (1/3)) for a rational v > 0: the least m with
\* s * cbrt(v / PI) < m + 1/2.  An exact tie, which round() would send to
\* the even neighbour, needs (2m+1)^3 * PiNum * v[2] = 8 * s^3 * v[1] * PiDen
\* with PiNum odd, hence a v[2] divisible by 2^18: none of the inputs has one
RoundRoot(s, v) == RoundSearch(0, 4095, s, v)

\* ------------------------------------------------------- calculate_design

\* line 26: inches to feet
DiameterFtInverted(diameter_in) == RDiv(R(12), diameter_in)

DiameterFt(diameter_in) == RDiv(diameter_in, R(12))

\* line 42: PI r^2 h
CylinderVolume(radius_ft, cylinder_length_ft) ==
  NPi(RMul(RMul(radius_ft, radius_ft), cylinder_length_ft))

\* line 44: (1/3) PI r^2 h
ConeVolumeNoThird(radius_ft, cone_length_ft) ==
  NPi(RMul(RMul(radius_ft, radius_ft), cone_length_ft))

ConeVolume(radius_ft, cone_length_ft) ==
  NPi(RMul(<<1, 3>>, RMul(RMul(radius_ft, radius_ft), cone_length_ft)))

\* line 52: the cone's slant height
SlantHeightNoSquare(radius_ft, cone_length_ft) ==
  Sqrt(RAdd(<<Abs(radius_ft[1]), radius_ft[2]>>,
            RMul(cone_length_ft, cone_length_ft)))

SlantHeight(radius_ft, cone_length_ft) ==
  Sqrt(RAdd(RMul(radius_ft, radius_ft), RMul(cone_length_ft, cone_length_ft)))

\* the local variables of calculate_design up to the division (lines 20-80),
\* given the slant height of line 52
LocalsGiven(params, slant_height) ==
  LET payload == params.payload
      safety_factor == params.safety_factor
      submersion_pct == RDiv(params.submersion_pct, R(100))
      diameter_ft == DiameterFt(params.diameter_in)
      length_ft == params.length_ft
      cone_pct == RDiv(params.cone_pct, R(100))
      radius_ft == RDiv(diameter_ft, R(2))
      cone_length_ft == RMul(length_ft, cone_pct)
      cylinder_length_ft == RMul(length_ft, RSub(R(1), cone_pct))
      r2 == RMul(radius_ft, radius_ft)
      cylinder_volume == CylinderVolume(radius_ft, cylinder_length_ft)
      cone_volume == ConeVolume(radius_ft, cone_length_ft)
      total_volume_per_pontoon == NAdd(cylinder_volume, cone_volume)
      cylinder_surface_area == NPi(RMul(RMul(R(2), radius_ft), cylinder_length_ft))
      cone_surface_area == NPi(RMul(radius_ft, slant_height))
      end_cap_area == NPi(r2)
      total_surface_area_per_pontoon ==
        NAdd(NAdd(cylinder_surface_area, cone_surface_area), end_cap_area)
      foam_weight_per_pontoon ==
        NScale(params.foam_density, total_volume_per_pontoon)
      coating_weight_per_pontoon ==
        NScale(params.coating_weight, total_surface_area_per_pontoon)
      pontoon_weight ==
        NScale(R(2), NAdd(foam_weight_per_pontoon, coating_weight_per_pontoon))
      total_tube_length ==
        RAdd(RMul(params.num_cross_beams, params.cross_beam_length),
             RMul(R(2), length_ft))
      frame_weight == RMul(total_tube_length, params.tube_weight)
      total_boat_weight ==
        NAdd(NAdd(NRat(payload), pontoon_weight), NRat(frame_weight))
      submerged_volume_per_pontoon ==
        NScale(submersion_pct, total_volume_per_pontoon)
      total_buoyant_force ==
        NScale(params.water_density, NScale(R(2), submerged_volume_per_pontoon))
  IN  [diameter_ft |-> diameter_ft,
       radius_ft |-> radius_ft,
       cone_length_ft |-> cone_length_ft,
       cylinder_length_ft |-> cylinder_length_ft,
       cylinder_volume |-> cylinder_volume,
       cone_volume |-> cone_volume,
       total_volume_per_pontoon |-> total_volume_per_pontoon,
       total_volume_both |-> NScale(R(2), total_volume_per_pontoon),
       cylinder_surface_area |-> cylinder_surface_area,
       slant_height |-> slant_height,
       cone_surface_area |-> cone_surface_area,
       end_cap_area |-> end_cap_area,
       total_surface_area_both |-> NScale(R(2), total_surface_area_per_pontoon),
       pontoon_weight |-> pontoon_weight,
       total_tube_length |-> total_tube_length,
       frame_weight |-> frame_weight,
       total_boat_weight |-> total_boat_weight,
       total_buoyant_force |-> total_buoyant_force,
       required_displacement |-> NScale(safety_factor, total_boat_weight),
       draft_ft |-> RMul(diameter_ft, submersion_pct)]

\* lines 36-52: the slant height is computed once, then used
Locals(params) ==
  LET radius_ft == RDiv(DiameterFt(params.diameter_in), R(2))
      cone_length_ft == RMul(params.length_ft, RDiv(params.cone_pct, R(100)))
  IN  CHOOSE v \in { LocalsGiven(params, s) :
                       s \in {SlantHeight(radius_ft, cone_length_ft)} } : TRUE

\* line 87: the branch that reports INSUFFICIENT BUOYANCY
InsufficientOrEqual(total_buoyant_force, required_displacement) ==
  NSign(NSub(total_buoyant_force, required_displacement)) <= 0

Insufficient(total_buoyant_force, required_displacement) ==
  NLess(total_buoyant_force, required_displacement)

\* lines 83-151, given the locals v: the float division of line 83 raises
\* ZeroDivisionError when total_boat_weight is 0; otherwise the results dict
\* is returned (its explanation text carries the locals)
Results(v) ==
      IF NSign(v.total_boat_weight) = 0
      THEN [kind |-> "raise", exc |-> "ZeroDivisionError"]
      ELSE [kind |-> "return",
            total_boat_weight |-> v.total_boat_weight,
            total_buoyant_force |-> v.total_buoyant_force,
            actual_safety_factor |->
              NQuot(v.total_buoyant_force, v.total_boat_weight),
            reserve_buoyancy |->
              NSub(v.total_buoyant_force, v.total_boat_weight),
            draft_in |-> RMul(v.draft_ft, R(12)),
            volume_per_pontoon |-> v.total_volume_per_pontoon,
            cylinder_length |-> v.cylinder_length_ft,
            cone_length |-> v.cone_length_ft,
            pontoon_weight |-> v.pontoon_weight,
            frame_weight |-> v.frame_weight,
            total_volume_both |-> v.total_volume_both,
            total_surface_area_both |-> v.total_surface_area_both,
            total_tube_length |-> v.total_tube_length,
            status |-> IF Insufficient(v.total_buoyant_force,
                                       v.required_displacement)
                       THEN "INSUFFICIENT BUOYANCY"
                       ELSE "VIABLE",
            explanation |-> v]

\* the outcome of calculate_design(params)
calculate_design(params) ==
  CHOOSE res \in { Results(v) : v \in {Locals(params)} } : TRUE

\* -------------------------------------------------------- optimize_design

\* lines 163-170: required_vol_per_pontoon, for water_density * submersion_pct # 0
RequiredVolWithFrame(params) ==
  LET submersion_pct == RDiv(params.submersion_pct, R(100))
      frame == RMul(RMul(params.num_cross_beams, params.cross_beam_length),
                    params.tube_weight)
      estimated_weight == RMul(RAdd(params.payload, frame), <<7, 5>>)
      required_disp == RMul(estimated_weight, params.safety_factor)
  IN  RDiv(RDiv(required_disp, R(2)),
           RMul(params.water_density, submersion_pct))

RequiredVol(params) ==
  LET submersion_pct == RDiv(params.submersion_pct, R(100))
      estimated_weight == RMul(params.payload, <<7, 5>>)
      required_disp == RMul(estimated_weight, params.safety_factor)
  IN  RDiv(RDiv(required_disp, R(2)),
           RMul(params.water_density, submersion_pct))

\* the outcome of optimize_design(params): line 170 raises ZeroDivisionError
\* when water_density * submersion_pct is 0; a negative volume has a complex
\* cube root (line 177), on which round() raises TypeError (line 182); a zero
\* volume gives (0, 0.0)
optimize_design(params) ==
  IF RSign(RMul(params.water_density, params.submersion_pct)) = 0
  THEN [kind |-> "raise", exc |-> "ZeroDivisionError"]
  ELSE LET v == RequiredVol(params)
       IN  IF RSign(v) < 0 THEN [kind |-> "raise", exc |-> "TypeError"]
           ELSE IF RSign(v) = 0
           THEN [kind |-> "return", diameter_in |-> R(0), length_ft |-> R(0)]
           ELSE [kind |-> "return",
                 diameter_in |-> R(RoundRoot(12, v)),
                 length_ft |-> RNorm(RoundRoot(400, v), 100)]

\* ------------------------------------------------------------------ state

VARIABLES
  params,   \* the twelve inputs: the dict passed to the functions, which in
            \* the application is the content of the twelve entry fields
  calc,     \* the outcome of the last call of calculate_design, or None
  opt,      \* the outcome of the last call of optimize_design, or None
  shown,    \* the results the application displays, or None
  last,     \* the operation that ran last
  edits     \* the number of field edits made so far

vars == <<params, calc, opt, shown, last, edits>>

None == [kind |-> "none"]

\* the values the entry fields are built with (lines 254-313)
Defaults ==
  [payload |-> R(100), safety_factor |-> <<9, 5>>, submersion_pct |-> R(60),
   diameter_in |-> R(12), length_ft |-> R(6), cone_pct |-> R(25),
   foam_density |-> R(1), coating_weight |-> <<3, 100>>,
   water_density |-> R(64), cross_beam_length |-> R(4),
   num_cross_beams |-> R(4), tube_weight |-> <<39, 50>>]

\* the inputs the model draws from
Payloads == {R(-100), R(0), R(100)}

SafetyFactors == {<<-9, 5>>, R(0), <<9, 5>>}

SubmersionPcts == {R(0), R(60)}

Diameters == {R(-12), R(12), R(24)}

Lengths == {R(-6), R(6)}

ConePcts == {R(0), R(25), R(100)}

FoamDensities == {R(0), R(1)}

CoatingWeights == {R(0), <<3, 100>>}

WaterDensities == {R(0), R(64)}

CrossBeamLengths == {R(0), R(4)}

NumCrossBeams == {R(0), R(4)}

TubeWeights == {R(0), <<39, 50>>}

\* the frame is either absent or the default one
Frames == {<<R(0), R(0), R(0)>>, <<R(4), R(4), <<39, 50>>>>}

Inputs ==
  { [payload |-> pl, safety_factor |-> sf, submersion_pct |-> sp,
     diameter_in |-> di, length_ft |-> le, cone_pct |-> cp,
     foam_density |-> fd, coating_weight |-> cw, water_density |-> wd,
     cross_beam_length |-> fr[1], num_cross_beams |-> fr[2],
     tube_weight |-> fr[3]] :
    pl \in Payloads, sf \in SafetyFactors, sp \in SubmersionPcts,
    di \in Diameters, le \in Lengths, cp \in ConePcts,
    fd \in FoamDensities, cw \in CoatingWeights, wd \in WaterDensities,
    fr \in Frames }

FieldValues ==
  [payload |-> Payloads, safety_factor |-> SafetyFactors,
   submersion_pct |-> SubmersionPcts, diameter_in |-> Diameters,
   length_ft |-> Lengths, cone_pct |-> ConePcts,
   foam_density |-> FoamDensities, coating_weight |-> CoatingWeights,
   water_density |-> WaterDensities, cross_beam_length |-> CrossBeamLengths,
   num_cross_beams |-> NumCrossBeams, tube_weight |-> TubeWeights]

MaxEdits == 2

\* --------------------------------------------------- the functions, called

\* a caller builds a dict and calls the functions on it
InitFn ==
  /\ params \in Inputs
  /\ calc = None
  /\ opt = None
  /\ shown = None
  /\ last = "none"
  /\ edits = 0

CallCalculate ==
  /\ calc' = calculate_design(params)
  /\ last' = "calculate_design"
  /\ UNCHANGED <<params, opt, shown, edits>>

CallOptimize ==
  /\ opt' = optimize_design(params)
  /\ last' = "optimize_design"
  /\ UNCHANGED <<params, calc, shown, edits>>

NextFn == CallCalculate \/ CallOptimize

SpecFn == InitFn /\ [][NextFn]_vars

\* -------------------------------------------------------- the application

\* __init__ builds the fields with their defaults and calls on_calculate
Init ==
  /\ params = Defaults
  /\ calc = calculate_design(Defaults)
  /\ opt = None
  /\ shown = calculate_design(Defaults)
  /\ last = "init"
  /\ edits = 0

\* the user types a value into one entry field
Edit ==
  /\ edits < MaxEdits
  /\ \E f \in DOMAIN FieldValues : \E v \in FieldValues[f] :
       /\ v # params[f]
       /\ params' = [params EXCEPT ![f] = v]
  /\ edits' = edits + 1
  /\ last' = "edit"
  /\ UNCHANGED <<calc, opt, shown>>

\* lines 335-375: an exception of calculate_design leaves the display as it was
on_calculate ==
  /\ calc' = calculate_design(params)
  /\ shown' = IF calc'.kind = "return" THEN calc' ELSE shown
  /\ last' = "on_calculate"
  /\ UNCHANGED <<params, opt, edits>>

\* on_optimize with its last two steps exchanged: it recalculates from the
\* fields as gathered and sets the two fields afterwards
on_optimize_EvaluateFirst ==
  /\ opt' = optimize_design(params)
  /\ IF opt'.kind = "return"
     THEN /\ params' = [params EXCEPT !.diameter_in = opt'.diameter_in,
                                      !.length_ft = opt'.length_ft]
          /\ calc' = calculate_design(params)
          /\ shown' = IF calc'.kind = "return" THEN calc' ELSE shown
     ELSE UNCHANGED <<params, calc, shown>>
  /\ last' = "on_optimize"
  /\ UNCHANGED edits

\* lines 377-388: an exception of optimize_design ends the callback before
\* the fields are set
on_optimize ==
  /\ opt' = optimize_design(params)
  /\ IF opt'.kind = "return"
     THEN /\ params' = [params EXCEPT !.diameter_in = opt'.diameter_in,
                                      !.length_ft = opt'.length_ft]
          /\ calc' = calculate_design(params')
          /\ shown' = IF calc'.kind = "return" THEN calc' ELSE shown
     ELSE UNCHANGED <<params, calc, shown>>
  /\ last' = "on_optimize"
  /\ UNCHANGED edits

Next == Edit \/ on_calculate \/ on_optimize

Spec == Init /\ [][Next]_vars

\* ----------------------------------------------------------------- claims

Zero == [r |-> <<0, 1>>, p |-> <<0, 1>>]

Calculated == last = "calculate_design"

Optimized == last = "optimize_design"

\* C1: whenever calculate_design returns, status is VIABLE exactly when
\* total_buoyant_force >= total_boat_weight * safety_factor and
\* INSUFFICIENT BUOYANCY otherwise; there is no third status
C1_StatusConsistency ==
  (Calculated /\ calc.kind = "return") =>
    /\ calc.status \in {"VIABLE", "INSUFFICIENT BUOYANCY"}
    /\ (calc.status = "VIABLE") <=>
         NGeq(calc.total_buoyant_force,
              NScale(params.safety_factor, calc.total_boat_weight))

\* C1 witness: a returned result on the boundary, the buoyant force equal to
\* the required displacement, for a boat of positive weight and size
C1_Witness ==
  /\ Calculated
  /\ calc.kind = "return"
  /\ calc.status = "VIABLE"
  /\ NSub(calc.total_buoyant_force,
          NScale(params.safety_factor, calc.total_boat_weight)) = Zero
  /\ NSign(calc.total_boat_weight) > 0
  /\ RSign(params.diameter_in) > 0
  /\ RSign(params.length_ft) > 0

\* the input of C2: nothing that weighs anything
ZeroWeightInput ==
  /\ params.payload = R(0)
  /\ params.foam_density = R(0)
  /\ params.coating_weight = R(0)
  /\ params.tube_weight = R(0)
  /\ params.cross_beam_length = R(0)
  /\ params.num_cross_beams = R(0)

\* C2: on an input whose total_boat_weight is 0, calculate_design returns a
\* DivisionByZero error value: it does not raise
C2_ZeroWeightReturnsError ==
  (Calculated /\ ZeroWeightInput) =>
    (calc.kind = "error" /\ calc.error = "DivisionByZero")

\* C3: from the default fields (payload 100, safety factor 1.8, submersion
\* 60, water density 64), the size optimize_design returns, merged into the
\* default record and evaluated, is VIABLE
C3_OptimizerRoundTrip ==
  (last = "on_optimize" /\ edits = 0) =>
    (opt.kind = "return" /\ calc.kind = "return" /\ calc.status = "VIABLE")

\* C4: with water_density = 0 or submersion_pct = 0, optimize_design returns
\* a DivisionByZero error value: it does not raise
C4_OptimizeZeroDivisorReturnsError ==
  (Optimized /\ (params.water_density = R(0) \/ params.submersion_pct = R(0)))
    => (opt.kind = "error" /\ opt.error = "DivisionByZero")

NonPositive(q) == RSign(q) <= 0

\* C5: optimize_design rejects with InvalidInput every input whose payload,
\* safety_factor, submersion_pct or water_density is zero or negative; it
\* returns no size for it and does not raise
C5_OptimizeRejectsNonPositive ==
  (Optimized /\ (\/ NonPositive(params.payload)
                 \/ NonPositive(params.safety_factor)
                 \/ NonPositive(params.submersion_pct)
                 \/ NonPositive(params.water_density)))
    => (opt.kind = "error" /\ opt.error = "InvalidInput")

\* C6: calculate_design rejects with InvalidInput every input whose
\* diameter_in or length_ft is negative, and no returned result holds a
\* negative volume
C6_RejectsNegativeGeometry ==
  Calculated =>
    /\ (RSign(params.diameter_in) < 0 \/ RSign(params.length_ft) < 0)
         => (calc.kind = "error" /\ calc.error = "InvalidInput")
    /\ calc.kind = "return"
         => /\ NSign(calc.volume_per_pontoon) >= 0
            /\ NSign(calc.explanation.cylinder_volume) >= 0
            /\ NSign(calc.explanation.cone_volume) >= 0

\* every field within its documented range
InRange(p) ==
  /\ RSign(p.payload) >= 0
  /\ RSign(p.submersion_pct) >= 0 /\ RLeq(p.submersion_pct, R(100))
  /\ RSign(p.cone_pct) >= 0 /\ RLeq(p.cone_pct, R(100))
  /\ RSign(p.diameter_in) > 0
  /\ RSign(p.length_ft) > 0

\* C7 as stated: of two in-range inputs that differ only in diameter_in,
\* the one with the larger diameter has the strictly larger
\* volume_per_pontoon, total_buoyant_force and actual_safety_factor
C7_MonotoneInDiameter ==
  \A d2 \in Diameters :
    (/\ Calculated
     /\ calc.kind = "return"
     /\ InRange(params)
     /\ RLess(params.diameter_in, d2))
    => LET c2 == calculate_design([params EXCEPT !.diameter_in = d2])
       IN  /\ c2.kind = "return"
           /\ NLess(calc.volume_per_pontoon, c2.volume_per_pontoon)
           /\ NLess(calc.total_buoyant_force, c2.total_buoyant_force)
           /\ QLess(calc.actual_safety_factor, c2.actual_safety_factor)

\* nothing of the boat has a negative weight
NonNegativeWeights(p) ==
  /\ RSign(p.foam_density) >= 0
  /\ RSign(p.coating_weight) >= 0
  /\ RSign(p.tube_weight) >= 0
  /\ RSign(p.cross_beam_length) >= 0
  /\ RSign(p.num_cross_beams) >= 0

\* C7 as amended: for two in-range inputs that differ only in diameter_in,
\* d1 < d2, both evaluated: volume_per_pontoon is strictly larger for d2;
\* total_buoyant_force is strictly larger when submersion_pct > 0 and
\* water_density > 0; actual_safety_factor is strictly larger when moreover
\* no weight is negative and payload + frame_weight > 0 or coating_weight > 0
C7_MonotoneWhereBuoyant ==
  \A d2 \in Diameters :
    (/\ Calculated
     /\ calc.kind = "return"
     /\ InRange(params)
     /\ RLess(params.diameter_in, d2))
    => LET c2 == calculate_design([params EXCEPT !.diameter_in = d2])
           buoyant == /\ RSign(params.submersion_pct) > 0
                      /\ RSign(params.water_density) > 0
           heavy == /\ NonNegativeWeights(params)
                    /\ \/ RSign(RAdd(params.payload, calc.frame_weight)) > 0
                       \/ RSign(params.coating_weight) > 0
       IN  /\ c2.kind = "return"
                => NLess(calc.volume_per_pontoon, c2.volume_per_pontoon)
           /\ (c2.kind = "return" /\ buoyant)
                => NLess(calc.total_buoyant_force, c2.total_buoyant_force)
           /\ (buoyant /\ heavy)
                => /\ c2.kind = "return"
                   /\ QLess(calc.actual_safety_factor, c2.actual_safety_factor)

\* C7 witness: an evaluated in-range design, afloat and with weight, for
\* which a larger diameter exists
C7_Witness ==
  /\ Calculated
  /\ calc.kind = "return"
  /\ InRange(params)
  /\ params.diameter_in = R(12)
  /\ RSign(params.submersion_pct) > 0
  /\ RSign(params.water_density) > 0
  /\ RSign(params.payload) > 0
  /\ RSign(params.coating_weight) > 0

\* C8 as stated: with cone_pct = 0 the computed cone_volume is 0 and the
\* computed cone_surface_area is 0
C8_DegenerateCone ==
  (Calculated /\ calc.kind = "return" /\ params.cone_pct = R(0)) =>
    /\ calc.explanation.cone_volume = Zero
    /\ calc.explanation.cone_surface_area = Zero

\* C8 as amended: with cone_pct = 0 the computed cone_volume is 0 and the
\* computed cone_surface_area is PI * r * |r| for r = diameter_in / 24, the
\* area of the end cap for a positive diameter (the slant height is |r|)
C8_DegenerateConeArea ==
  (Calculated /\ calc.kind = "return" /\ params.cone_pct = R(0)) =>
    LET r == RNorm(params.diameter_in[1], 24 * params.diameter_in[2])
    IN  /\ calc.explanation.cone_volume = Zero
        /\ calc.explanation.cone_surface_area =
             NPi(RNorm(r[1] * Abs(r[1]), r[2] * r[2]))

\* C8 witness: an evaluated design without cone, of diameter 12
C8_Witness ==
  /\ Calculated
  /\ calc.kind = "return"
  /\ params.cone_pct = R(0)
  /\ params.diameter_in = R(12)
  /\ calc.explanation.cone_surface_area = NPi(<<1, 4>>)

\* C9: on the default record calculate_design computes diameter_ft = 1,
\* radius_ft = 0.5, cone_length_ft = 1.5, cylinder_length_ft = 4.5,
\* cylinder_volume = PI * 0.25 * 4.5, cone_volume = (1/3) * PI * 0.25 * 1.5,
\* their sum as the volume per pontoon (3.927 to three decimals) and twice
\* that as total_volume_both
C9_LiteralScenario ==
  (Calculated /\ params = Defaults) =>
    /\ calc.kind = "return"
    /\ calc.explanation.diameter_ft = <<1, 1>>
    /\ calc.explanation.radius_ft = <<1, 2>>
    /\ calc.cone_length = <<3, 2>>
    /\ calc.cylinder_length = <<9, 2>>
    /\ calc.explanation.cylinder_volume = [r |-> <<0, 1>>, p |-> <<9, 8>>]
    /\ calc.explanation.cone_volume = [r |-> <<0, 1>>, p |-> <<1, 8>>]
    /\ calc.volume_per_pontoon = [r |-> <<0, 1>>, p |-> <<5, 4>>]
    /\ NGeq(calc.volume_per_pontoon, NRat(<<39265, 10000>>))
    /\ NLess(calc.volume_per_pontoon, NRat(<<39275, 10000>>))
    /\ calc.total_volume_both = [r |-> <<0, 1>>, p |-> <<5, 2>>]

\* C9 witness: the default record, evaluated
C9_Witness ==
  /\ Calculated
  /\ params = Defaults
  /\ calc.kind = "return"
  /\ calc.status = "VIABLE"

\* the fields optimize_design is said to ignore
IgnoredFields ==
  {"diameter_in", "length_ft", "cone_pct", "foam_density", "coating_weight",
   "cross_beam_length", "num_cross_beams", "tube_weight"}

\* the records that differ from p in one ignored field (any two records that
\* agree on the four other fields are linked by a chain of such changes)
Variants(p) ==
  UNION { { [p EXCEPT ![f] = v] : v \in FieldValues[f] } : f \in IgnoredFields }

\* C10: a call of optimize_design leaves its input record as it was, and its
\* outcome is the one it has on every record that agrees with the input on
\* payload, safety_factor, submersion_pct and water_density
C10_OptimizeReadsFourFields ==
  [][last' = "optimize_design" =>
       /\ params' = params
       /\ \A q \in Variants(params) : optimize_design(q) = opt']_vars

\* C10 witness: optimize_design has returned a size for a record whose
\* geometry and materials are not the default ones
C10_Witness ==
  /\ Optimized
  /\ opt.kind = "return"
  /\ opt.diameter_in = R(12)
  /\ params.payload = R(100)
  /\ params.diameter_in = R(24)
  /\ params.foam_density = R(0)
  /\ params.tube_weight = R(0)

\* C11: whenever calculate_design returns status VIABLE,
\* total_buoyant_force is strictly greater than total_boat_weight, whatever
\* the safety_factor
C11_ViableExceedsWeight ==
  (Calculated /\ calc.kind = "return" /\ calc.status = "VIABLE") =>
    NLess(calc.total_boat_weight, calc.total_buoyant_force)

\* the ten fields on_optimize does not write
OtherFields == DOMAIN Defaults \ {"diameter_in", "length_ft"}

====
